---- MODULE Spec2Model ----
(***************************************************************************)
(* The weather tool server of src/weather/weather.py: the request helper   *)
(* make_nws_request, the formatter format_alert and the two tool handlers  *)
(* get_alerts and get_forecast, run as coroutines that the event loop      *)
(* interleaves at their await points.                                      *)
(*                                                                         *)
(* JSON values and Python values are tagged records, so that None, dicts,  *)
(* lists, strings and numbers can be compared with one another.  A text    *)
(* returned by a handler is the sequence of the pieces (template literals  *)
(* and rendered fields) whose concatenation is the Python str.             *)
(***************************************************************************)
EXTENDS Integers, Sequences, FiniteSets, TLC

\* ------------------------------------------------------------------ bounds
\* Number of handler invocations the framework runs concurrently.
NumInv == 2
\* Longest "features" list an upstream alerts response carries.
MaxFeatures == 2
\* Longest "periods" list an upstream forecast response carries.
MaxPeriods == 6

\* --------------------------------------------------------- program constants
NWS_API_BASE == "https://api.weather.gov"
\* periods[:5]
PeriodCap == 5

\* ------------------------------------------------------------ Python values
None == [type |-> "None"]
JStr(s) == [type |-> "str", s |-> s]
JInt(n) == [type |-> "int", n |-> n]
JList(elems) == [type |-> "list", elems |-> elems]
JDict(items) == [type |-> "dict", items |-> items]
EmptyDict == JDict(<<>>)

\* bool(v), as `not v` uses it.
Truthy(v) ==
    CASE v.type = "None" -> FALSE
      [] v.type = "str" -> v.s # ""
      [] v.type = "int" -> v.n # 0
      [] v.type = "list" -> Len(v.elems) > 0
      [] v.type = "dict" -> DOMAIN v.items # {}

\* `key in d` for a dict d.
HasKey(d, key) == key \in DOMAIN d.items

\* d.get(key, default)
DictGet(d, key, default) == IF HasKey(d, key) THEN d.items[key] ELSE default

\* str(v), as an f-string renders a field.
PyStr(v) ==
    CASE v.type = "None" -> "None"
      [] v.type = "str" -> v.s
      [] v.type = "int" -> ToString(v.n)

\* str(x) of a float whose value is the integer x.
FloatStr(x) == ToString(x) \o ".0"

\* The outcome of evaluating an expression or running a function body.
Return(value) == [kind |-> "return", value |-> value]
Raise(exc) == [kind |-> "raise", exc |-> exc]
Pending == [kind |-> "pending"]

Min(a, b) == IF a < b THEN a ELSE b

\* sep.join(blocks), on texts held as sequences of pieces.
RECURSIVE Join(_, _)
Join(sep, blocks) ==
    IF Len(blocks) = 0 THEN <<>>
    ELSE IF Len(blocks) = 1 THEN blocks[1]
    ELSE blocks[1] \o <<sep>> \o Join(sep, Tail(blocks))

Separator == "\n---\n"

\* ------------------------------------------------------------- format_alert
\* format_alert with the placeholder of event on every field.
AlertTextOnePlaceholder(props) ==
    << "\n                Event: ",
       PyStr(DictGet(props, "event", JStr("Unknown"))),
       "\n                Area: ",
       PyStr(DictGet(props, "areaDesc", JStr("Unknown"))),
       "\n                Severity: ",
       PyStr(DictGet(props, "severity", JStr("Unknown"))),
       "\n                Description: ",
       PyStr(DictGet(props, "description", JStr("Unknown"))),
       "\n                Instructions: ",
       PyStr(DictGet(props, "instruction", JStr("Unknown"))),
       "\n            " >>

\* The f-string of format_alert, one piece per literal and per field.
AlertText(props) ==
    << "\n                Event: ",
       PyStr(DictGet(props, "event", JStr("Unknown"))),
       "\n                Area: ",
       PyStr(DictGet(props, "areaDesc", JStr("Unknown"))),
       "\n                Severity: ",
       PyStr(DictGet(props, "severity", JStr("Unknown"))),
       "\n                Description: ",
       PyStr(DictGet(props, "description", JStr("No description available"))),
       "\n                Instructions: ",
       PyStr(DictGet(props, "instruction", JStr("No specific instructions provided"))),
       "\n            " >>

\* feature["properties"] raises KeyError when the key is missing.
format_alert(feature) ==
    IF ~HasKey(feature, "properties") THEN Raise("KeyError")
    ELSE Return(AlertText(feature.items["properties"]))

\* ------------------------------------------------------------ period block
PeriodFields ==
    {"name", "temperature", "temperatureUnit", "windSpeed", "windDirection",
     "detailedForecast"}

\* The f-string in the loop of get_forecast; period[key] raises KeyError.
format_period(period) ==
    IF \E key \in PeriodFields : ~HasKey(period, key) THEN Raise("KeyError")
    ELSE Return(<< "\n", PyStr(period.items["name"]),
                   ":\nTemperature: ", PyStr(period.items["temperature"]),
                   "°", PyStr(period.items["temperatureUnit"]),
                   "\nWind: ", PyStr(period.items["windSpeed"]),
                   " ", PyStr(period.items["windDirection"]),
                   "\nForecast: ", PyStr(period.items["detailedForecast"]),
                   "\n" >>)

\* A list comprehension or loop over already evaluated blocks: the first
\* block that raised ends it, otherwise the blocks are joined.
JoinBlocks(blocks) ==
    IF \E k \in 1..Len(blocks) : blocks[k].kind = "raise"
    THEN blocks[CHOOSE k \in 1..Len(blocks) :
                  /\ blocks[k].kind = "raise"
                  /\ \A j \in 1..(k - 1) : blocks[j].kind # "raise"]
    ELSE Return(Join(Separator, [k \in 1..Len(blocks) |-> blocks[k].value]))

\* --------------------------------------------------------- make_nws_request
\* What client.get(url, headers=headers, timeout=30.0) comes to: an exception
\* of the transport, or a response with a status code and a body.
GetException(exc) == [kind |-> "exception", exc |-> exc]
GetResponse(status, body) == [kind |-> "response", status |-> status, body |-> body]
Malformed == [type |-> "malformed"]

\* The exception classes `except Exception` catches.
ExceptionClasses ==
    {"ConnectError", "ReadTimeout", "HTTPStatusError", "JSONDecodeError"}

\* The try body: the awaited GET, response.raise_for_status(), response.json().
TryBody(o) ==
    IF o.kind = "exception" THEN Raise(o.exc)
    ELSE IF ~(200 <= o.status /\ o.status <= 299) THEN Raise("HTTPStatusError")
    ELSE IF o.body.type = "malformed" THEN Raise("JSONDecodeError")
    ELSE Return(o.body)

\* make_nws_request catching the errors of the transport only
\* (except httpx.RequestError).
make_nws_request_narrow(o) ==
    LET r == TryBody(o)
    IN IF r.kind = "raise" /\ r.exc \in {"ConnectError", "ReadTimeout"}
       THEN Return(None) ELSE r

\* try ... except Exception: return None
make_nws_request(o) ==
    LET r == TryBody(o)
    IN IF r.kind = "raise" /\ r.exc \in ExceptionClasses THEN Return(None) ELSE r

\* ------------------------------------------------------------------ get_alerts
alerts_url(state) == NWS_API_BASE \o "/alerts/active/area/" \o state

\* get_alerts without `"features" not in data`.
get_alerts_no_key_check(r) ==
    IF r.kind = "raise" THEN r
    ELSE LET data == r.value
         IN IF ~Truthy(data)
            THEN Return(<<"Unable to fetch alerts or no alerts found.">>)
            ELSE IF ~HasKey(data, "features") THEN Raise("KeyError")
            ELSE IF ~Truthy(data.items["features"])
            THEN Return(<<"No active alerts for this state.">>)
            ELSE LET features == data.items["features"].elems
                 IN JoinBlocks([k \in 1..Len(features) |-> format_alert(features[k])])

\* get_alerts without `if not data["features"]`.
get_alerts_no_empty_check(r) ==
    IF r.kind = "raise" THEN r
    ELSE LET data == r.value
         IN IF ~Truthy(data)
            THEN Return(<<"Unable to fetch alerts or no alerts found.">>)
            ELSE IF ~HasKey(data, "features")
            THEN Return(<<"Unable to fetch alerts or no alerts found.">>)
            ELSE IF data.items["features"].type # "list" THEN Raise("TypeError")
            ELSE LET features == data.items["features"].elems
                 IN JoinBlocks([k \in 1..Len(features) |-> format_alert(features[k])])

\* get_alerts from the return of make_nws_request on: r is what the await
\* gave.
get_alerts_body(r) ==
    IF r.kind = "raise" THEN r
    ELSE LET data == r.value
         IN IF ~Truthy(data)
            THEN Return(<<"Unable to fetch alerts or no alerts found.">>)
            ELSE IF ~HasKey(data, "features")
            THEN Return(<<"Unable to fetch alerts or no alerts found.">>)
            ELSE IF ~Truthy(data.items["features"])
            THEN Return(<<"No active alerts for this state.">>)
            ELSE LET features == data.items["features"].elems
                 IN JoinBlocks([k \in 1..Len(features) |-> format_alert(features[k])])

\* ---------------------------------------------------------------- get_forecast
points_url(latitude, longitude) ==
    NWS_API_BASE \o "/points/" \o FloatStr(latitude) \o "," \o FloatStr(longitude)

\* get_forecast between its two awaits: a final outcome, or the URL of the
\* second make_nws_request.
CallFetch(url) == [kind |-> "call", url |-> url]

\* get_forecast going on to the forecast of a default office when the points
\* lookup gave nothing.
get_forecast_points_fallback(r) ==
    IF r.kind = "raise" THEN r
    ELSE LET points_data == r.value
         IN IF ~Truthy(points_data)
            THEN CallFetch(NWS_API_BASE \o "/gridpoints/LWX/31,80/forecast")
            ELSE IF ~HasKey(points_data, "properties") THEN Raise("KeyError")
            ELSE IF ~HasKey(points_data.items["properties"], "forecast")
            THEN Raise("KeyError")
            ELSE CallFetch(points_data.items["properties"].items["forecast"].s)

get_forecast_points(r) ==
    IF r.kind = "raise" THEN r
    ELSE LET points_data == r.value
         IN IF ~Truthy(points_data)
            THEN Return(<<"Unable to fetch forecast data for this location.">>)
            ELSE IF ~HasKey(points_data, "properties") THEN Raise("KeyError")
            ELSE IF ~HasKey(points_data.items["properties"], "forecast")
            THEN Raise("KeyError")
            ELSE CallFetch(points_data.items["properties"].items["forecast"].s)

\* periods, without the slice.
AllPeriods(periods) == periods

\* periods[:5]
FirstPeriods(periods) == SubSeq(periods, 1, Min(Len(periods), PeriodCap))

\* get_forecast with the message of the first check on the second.
get_forecast_detail_first_message(r) ==
    IF r.kind = "raise" THEN r
    ELSE LET forecast_data == r.value
         IN IF ~Truthy(forecast_data)
            THEN Return(<<"Unable to fetch forecast data for this location.">>)
            ELSE IF ~HasKey(forecast_data, "properties") THEN Raise("KeyError")
            ELSE IF ~HasKey(forecast_data.items["properties"], "periods")
            THEN Raise("KeyError")
            ELSE LET all == forecast_data.items["properties"].items["periods"].elems
                     periods == SubSeq(all, 1, Min(Len(all), PeriodCap))
                 IN JoinBlocks([k \in 1..Len(periods) |-> format_period(periods[k])])

\* get_forecast from the return of the second make_nws_request on.
get_forecast_detail(r) ==
    IF r.kind = "raise" THEN r
    ELSE LET forecast_data == r.value
         IN IF ~Truthy(forecast_data)
            THEN Return(<<"Unable to fetch detailed forecast.">>)
            ELSE IF ~HasKey(forecast_data, "properties") THEN Raise("KeyError")
            ELSE IF ~HasKey(forecast_data.items["properties"], "periods")
            THEN Raise("KeyError")
            ELSE LET periods ==
                         FirstPeriods(forecast_data.items["properties"].items["periods"].elems)
                 IN JoinBlocks([k \in 1..Len(periods) |-> format_period(periods[k])])

\* ------------------------------------------------------- the upstream service
Feature(props) == JDict([id |-> JStr("urn:alert"), properties |-> props])

FullProps ==
    JDict([event |-> JStr("Flood Warning"), areaDesc |-> JStr("Kern County"),
           severity |-> JStr("Severe"), description |-> JStr("River rising"),
           instruction |-> JStr("Move to higher ground")])
PartialProps ==
    JDict([event |-> JStr("Heat Advisory"), description |-> JStr("Hot afternoon")])
EmptyProps == EmptyDict
BareFeature == JDict([id |-> JStr("urn:alert")])

FeatureKinds ==
    {Feature(FullProps), Feature(PartialProps), Feature(EmptyProps), BareFeature}

FeatureLists ==
    UNION {[1..n -> FeatureKinds] : n \in 0..MaxFeatures}

AlertBodies ==
    {None, EmptyDict, JDict([title |-> JStr("Not a collection")]),
     JDict([features |-> None])}
        \cup {JDict([type |-> JStr("FeatureCollection"), features |-> JList(l)]) :
                l \in FeatureLists}

forecast_url_of(office) == NWS_API_BASE \o "/gridpoints/" \o office \o "/31,80/forecast"
Offices == {"LWX", "TOP"}

PointsBodies ==
    {None, EmptyDict, JDict([id |-> JStr("point")]),
     JDict([properties |-> JDict([cwa |-> JStr("LWX")])])}
        \cup {JDict([properties |-> JDict([forecast |-> JStr(forecast_url_of(office))])]) :
                office \in Offices}

Period(k) ==
    JDict([name |-> JStr("Period " \o ToString(k)), temperature |-> JInt(60 + k),
           temperatureUnit |-> JStr("F"), windSpeed |-> JStr("5 mph"),
           windDirection |-> JStr("NW"), detailedForecast |-> JStr("Sunny")])

\* Period k as the upstream would send it without its windSpeed.
PeriodWithout(k, key) ==
    JDict([f \in PeriodFields \ {key} |-> Period(k).items[f]])

\* n periods in upstream order, the one at index bad (if any) incomplete.
PeriodList(n, bad) ==
    [k \in 1..n |-> IF k = bad THEN PeriodWithout(k, "windSpeed") ELSE Period(k)]

PeriodLists == {PeriodList(n, bad) : n \in 0..MaxPeriods, bad \in 0..MaxPeriods}

ForecastBodies ==
    {None, EmptyDict, JDict([id |-> JStr("forecast")]),
     JDict([properties |-> JDict([units |-> JStr("us")])])}
        \cup {JDict([properties |-> JDict([periods |-> JList(l)])]) : l \in PeriodLists}

Failures ==
    {GetException("ConnectError"), GetException("ReadTimeout"),
     GetResponse(404, JDict([title |-> JStr("Not Found")])),
     GetResponse(301, Malformed), GetResponse(500, Malformed),
     GetResponse(200, Malformed)}

Ok(bodies) == {GetResponse(200, b) : b \in bodies}

States == {"CA", "NY"}
Coordinates == {<<39, -77>>, <<34, -118>>}

AlertUrls == {alerts_url(state) : state \in States}
PointsUrls == {points_url(c[1], c[2]) : c \in Coordinates}

Family(url) ==
    IF url \in AlertUrls THEN "alerts"
    ELSE IF url \in PointsUrls THEN "points" ELSE "forecast"

\* What the framework may ask and what the upstream may answer, per endpoint
\* family: every failure and every body above.
Everything ==
    [states |-> States, coords |-> Coordinates,
     alerts |-> Failures \cup Ok(AlertBodies),
     points |-> Failures \cup Ok(PointsBodies),
     forecast |-> Failures \cup Ok(ForecastBodies)]

\* A few requests and answers, for the runs that interleave invocations.
Few ==
    [states |-> States, coords |-> {<<39, -77>>},
     alerts |-> {GetException("ConnectError")}
                  \cup Ok({JDict([features |-> JList(<<Feature(FullProps)>>)]),
                           JDict([features |-> JList(<<Feature(PartialProps)>>)])}),
     points |-> {GetResponse(500, Malformed)}
                  \cup Ok({JDict([properties |->
                                    JDict([forecast |-> JStr(forecast_url_of("LWX"))])])}),
     forecast |-> {GetException("ReadTimeout")}
                  \cup Ok({JDict([properties |->
                                    JDict([periods |-> JList(PeriodList(1, 0))])])})]

\* ----------------------------------------------------------------------- state
Inv == 1..NumInv

VARIABLES
    call,        \* per invocation: the tool the framework called and its arguments
    pc,          \* per invocation: the await the handler is suspended at
    stage,       \* per invocation: the await make_nws_request is suspended at
    frame,       \* per frame: the locals of the running make_nws_request
    open,        \* the httpx.AsyncClient objects that are open
    nextClient,  \* identity of the next object httpx.AsyncClient() constructs
    log,         \* per invocation: its fetches so far
    ret          \* per invocation: what the handler gave back to the framework

vars == <<call, pc, stage, frame, open, nextClient, log, ret>>

NoCall == [tool |-> "none"]
NoFrame == [url |-> "", client |-> 0, result |-> Pending]
NoLog == [calls |-> <<>>, clients |-> <<>>, sent |-> <<>>, outcomes |-> <<>>,
          returns |-> <<>>]

\* One frame for all invocations (locals kept at module level).
SharedFrame(i) == 1

\* The frame object that holds the locals of invocation i's coroutine: each
\* call of an async function has a frame of its own.
Frame(i) == i

Init ==
    /\ call = [i \in Inv |-> NoCall]
    /\ pc = [i \in Inv |-> "idle"]
    /\ stage = [i \in Inv |-> "none"]
    /\ frame = [i \in Inv |-> NoFrame]
    /\ open = {}
    /\ nextClient = 1
    /\ log = [i \in Inv |-> NoLog]
    /\ ret = [i \in Inv |-> Pending]

Last(q) == q[Len(q)]

\* make_nws_request(url) up to its first await: the call gets its frame,
\* httpx.AsyncClient() constructs a client and `async with` enters it.
EnterRequest(i, url) ==
    [frame EXCEPT ![Frame(i)] = [url |-> url, client |-> nextClient, result |-> Pending]]

LogCall(i, url) ==
    [log EXCEPT ![i].calls = Append(@, url), ![i].clients = Append(@, nextClient)]

\* A client that is never closed (no `async with`).
KeepClientOpen(clients, c) == clients

\* The exit of `async with httpx.AsyncClient() as client`: the client is closed.
AsyncClientExit(clients, c) == clients \ {c}

\* --------------------------------------------------------------------- actions
\* The framework calls the tool get_alerts(state): the handler builds the URL
\* and runs into make_nws_request, which suspends entering its client.
get_alerts(i, W) ==
    /\ pc[i] = "idle"
    /\ \E state \in W.states :
         /\ call' = [call EXCEPT ![i] = [tool |-> "get_alerts", state |-> state]]
         /\ frame' = EnterRequest(i, alerts_url(state))
         /\ log' = LogCall(i, alerts_url(state))
    /\ pc' = [pc EXCEPT ![i] = "alerts"]
    /\ stage' = [stage EXCEPT ![i] = "aenter"]
    /\ open' = open \cup {nextClient}
    /\ nextClient' = nextClient + 1
    /\ UNCHANGED ret

\* The framework calls the tool get_forecast(latitude, longitude).
get_forecast(i, W) ==
    /\ pc[i] = "idle"
    /\ \E c \in W.coords :
         /\ call' = [call EXCEPT ![i] = [tool |-> "get_forecast", latitude |-> c[1],
                                         longitude |-> c[2]]]
         /\ frame' = EnterRequest(i, points_url(c[1], c[2]))
         /\ log' = LogCall(i, points_url(c[1], c[2]))
    /\ pc' = [pc EXCEPT ![i] = "points"]
    /\ stage' = [stage EXCEPT ![i] = "aenter"]
    /\ open' = open \cup {nextClient}
    /\ nextClient' = nextClient + 1
    /\ UNCHANGED ret

\* make_nws_request resumes inside `async with` and suspends in
\* client.get(url, ...): the GET of the frame's url is on its way.
client_get(i) ==
    /\ stage[i] = "aenter"
    /\ stage' = [stage EXCEPT ![i] = "get"]
    /\ log' = [log EXCEPT ![i].sent = Append(@, frame[Frame(i)].url)]
    /\ UNCHANGED <<call, pc, frame, open, nextClient, ret>>

\* The GET ends, with an exception or a response; the rest of the try block
\* runs, the return value is set and `async with` suspends closing the client.
client_get_done(i, W) ==
    /\ stage[i] = "get"
    /\ \E o \in W[Family(Last(log[i].sent))] :
         /\ frame' = [frame EXCEPT ![Frame(i)].result = make_nws_request(o)]
         /\ log' = [log EXCEPT ![i].outcomes = Append(@, o)]
    /\ stage' = [stage EXCEPT ![i] = "aexit"]
    /\ UNCHANGED <<call, pc, open, nextClient, ret>>

\* make_nws_request returns to get_alerts, which runs to its end.
get_alerts_return(i) ==
    /\ pc[i] = "alerts"
    /\ stage[i] = "aexit"
    /\ LET f == frame[Frame(i)]
       IN /\ open' = AsyncClientExit(open, f.client)
          /\ log' = [log EXCEPT ![i].returns = Append(@, f.result)]
          /\ ret' = [ret EXCEPT ![i] = get_alerts_body(f.result)]
    /\ frame' = [frame EXCEPT ![Frame(i)] = NoFrame]
    /\ pc' = [pc EXCEPT ![i] = "done"]
    /\ stage' = [stage EXCEPT ![i] = "none"]
    /\ UNCHANGED <<call, nextClient>>

\* The first make_nws_request returns to get_forecast, which either ends or
\* runs into the second make_nws_request, on the forecast URL.
get_forecast_points_return(i) ==
    /\ pc[i] = "points"
    /\ stage[i] = "aexit"
    /\ LET f == frame[Frame(i)]
           next == get_forecast_points(f.result)
           closed == AsyncClientExit(open, f.client)
           returned == [log EXCEPT ![i].returns = Append(@, f.result)]
       IN IF next.kind = "call"
          THEN /\ frame' = EnterRequest(i, next.url)
               /\ log' = [returned EXCEPT ![i].calls = Append(@, next.url),
                                          ![i].clients = Append(@, nextClient)]
               /\ open' = closed \cup {nextClient}
               /\ nextClient' = nextClient + 1
               /\ pc' = [pc EXCEPT ![i] = "detail"]
               /\ stage' = [stage EXCEPT ![i] = "aenter"]
               /\ UNCHANGED ret
          ELSE /\ frame' = [frame EXCEPT ![Frame(i)] = NoFrame]
               /\ log' = returned
               /\ open' = closed
               /\ ret' = [ret EXCEPT ![i] = next]
               /\ pc' = [pc EXCEPT ![i] = "done"]
               /\ stage' = [stage EXCEPT ![i] = "none"]
               /\ UNCHANGED nextClient
    /\ UNCHANGED call

\* The second make_nws_request returns to get_forecast, which runs to its end.
get_forecast_detail_return(i) ==
    /\ pc[i] = "detail"
    /\ stage[i] = "aexit"
    /\ LET f == frame[Frame(i)]
       IN /\ open' = AsyncClientExit(open, f.client)
          /\ log' = [log EXCEPT ![i].returns = Append(@, f.result)]
          /\ ret' = [ret EXCEPT ![i] = get_forecast_detail(f.result)]
    /\ frame' = [frame EXCEPT ![Frame(i)] = NoFrame]
    /\ pc' = [pc EXCEPT ![i] = "done"]
    /\ stage' = [stage EXCEPT ![i] = "none"]
    /\ UNCHANGED <<call, nextClient>>

Handler(i, W) ==
    \/ get_alerts(i, W)
    \/ get_forecast(i, W)
    \/ client_get(i)
    \/ client_get_done(i, W)
    \/ get_alerts_return(i)
    \/ get_forecast_points_return(i)
    \/ get_forecast_detail_return(i)

\* One invocation at a time, against everything the upstream may answer.
Alone == {1}
Next == \E i \in Alone : Handler(i, Everything)
Spec == Init /\ [][Next]_vars

\* Concurrent invocations, interleaved at their awaits.
NextConc == \E i \in Inv : Handler(i, Few)
SpecConc == Init /\ [][NextConc]_vars

\* ---------------------------------------------------------------- properties
\* A GET that did not come to a success status with a parsable body.
Failed(o) ==
    \/ o.kind = "exception"
    \/ o.kind = "response" /\ (o.status < 200 \/ o.status > 299)
    \/ o.kind = "response" /\ o.body.type = "malformed"

Fetches(i) == 1..Len(log[i].returns)

\* C1: make_nws_request never raises to its caller: a GET that failed (an
\* exception of the transport, a timeout, a non-success status, a malformed
\* body) makes it return None, and any other GET makes it return the parsed
\* body of the response.
C1_FetchNeverRaises ==
    \A i \in Inv : \A k \in Fetches(i) :
        LET o == log[i].outcomes[k]
            r == log[i].returns[k]
        IN /\ r.kind = "return"
           /\ Failed(o) => r.value = None
           /\ ~Failed(o) => r.value = o.body

C1_Witness ==
    \E i \in Inv :
        /\ Len(log[i].returns) = 2
        /\ log[i].outcomes[1].kind = "response"
        /\ log[i].outcomes[1].status = 200
        /\ log[i].returns[1] = Return(log[i].outcomes[1].body)
        /\ log[i].outcomes[2].kind = "response"
        /\ log[i].outcomes[2].status = 404
        /\ log[i].returns[2] = Return(None)

\* C2: once the points lookup of a get_forecast has failed, the handler has
\* returned "Unable to fetch forecast data for this location." and has made
\* one fetch call only: the detail fetch is never attempted.
C2_PointsFailureStops ==
    \A i \in Inv :
        (/\ call[i].tool = "get_forecast"
         /\ Len(log[i].returns) >= 1
         /\ Failed(log[i].outcomes[1]))
        => /\ pc[i] = "done"
           /\ ret[i] = Return(<<"Unable to fetch forecast data for this location.">>)
           /\ Len(log[i].calls) = 1
           /\ Len(log[i].sent) = 1
           /\ Len(log[i].clients) = 1

C2_Witness ==
    \E i \in Inv :
        /\ call[i].tool = "get_forecast"
        /\ pc[i] = "done"
        /\ Len(log[i].returns) = 1
        /\ log[i].outcomes[1] = GetException("ReadTimeout")
        /\ Len(log[i].calls) = 1

\* C3: every failure path of get_alerts and get_forecast, a failed fetch or a
\* response that lacks an expected field, ends with a returned string: no
\* invocation raises to the framework.
C3_NoFailurePathRaises ==
    \A i \in Inv : ret[i].kind # "raise"

\* C4: when the points lookup of a get_forecast succeeded and the detail
\* fetch of the extracted forecast URL failed, the handler has returned
\* "Unable to fetch detailed forecast." after two fetch calls, the points URL
\* and then the forecast URL of the points response, each sent once.
C4_DetailFailure ==
    \A i \in Inv :
        (/\ call[i].tool = "get_forecast"
         /\ Len(log[i].returns) = 2
         /\ ~Failed(log[i].outcomes[1])
         /\ Failed(log[i].outcomes[2]))
        => /\ pc[i] = "done"
           /\ ret[i] = Return(<<"Unable to fetch detailed forecast.">>)
           /\ log[i].calls =
                << points_url(call[i].latitude, call[i].longitude),
                   log[i].outcomes[1].body.items["properties"].items["forecast"].s >>
           /\ log[i].sent = log[i].calls
           /\ Len(log[i].outcomes) = 2

C4_Witness ==
    \E i \in Inv :
        /\ call[i].tool = "get_forecast"
        /\ pc[i] = "done"
        /\ Len(log[i].returns) = 2
        /\ ~Failed(log[i].outcomes[1])
        /\ log[i].outcomes[2] = GetResponse(500, Malformed)

\* What a finished get_alerts got from its fetch.
AlertsData(i) == log[i].returns[1].value
AlertsDone(i) == call[i].tool = "get_alerts" /\ pc[i] = "done"

\* C5: get_alerts returns "Unable to fetch alerts or no alerts found."
\* whenever its fetch gave None or a response without a "features" field;
\* nothing else is in the text, so no feature was formatted.
C5_AlertsUnable ==
    \A i \in Inv :
        (/\ AlertsDone(i)
         /\ \/ AlertsData(i) = None
            \/ AlertsData(i).type = "dict" /\ "features" \notin DOMAIN AlertsData(i).items)
        => ret[i] = Return(<<"Unable to fetch alerts or no alerts found.">>)

C5_Witness ==
    \E i \in Inv :
        /\ AlertsDone(i)
        /\ AlertsData(i) = JDict([title |-> JStr("Not a collection")])
        /\ ret[i] = Return(<<"Unable to fetch alerts or no alerts found.">>)

\* C6: get_alerts on a response whose "features" is present and is an empty
\* list returns "No active alerts for this state.".
C6_NoActiveAlerts ==
    \A i \in Inv :
        (/\ AlertsDone(i)
         /\ AlertsData(i).type = "dict"
         /\ "features" \in DOMAIN AlertsData(i).items
         /\ AlertsData(i).items["features"] = JList(<<>>))
        => ret[i] = Return(<<"No active alerts for this state.">>)

C6_Witness ==
    \E i \in Inv :
        /\ AlertsDone(i)
        /\ AlertsData(i).type = "dict"
        /\ "features" \in DOMAIN AlertsData(i).items
        /\ AlertsData(i).items["features"] = JList(<<>>)

\* The text of a field of an alert: its value, or its placeholder when the
\* properties do not have it.
Shown(props, key, placeholder) ==
    IF key \in DOMAIN props.items THEN props.items[key].s ELSE placeholder

\* The features of a finished get_alerts, when its response has N >= 1 of
\* them and each has its property bag.
AlertFeatures(i) == AlertsData(i).items["features"].elems
HasAlerts(i) ==
    /\ AlertsDone(i)
    /\ AlertsData(i).type = "dict"
    /\ "features" \in DOMAIN AlertsData(i).items
    /\ AlertsData(i).items["features"].type = "list"
    /\ Len(AlertFeatures(i)) >= 1
    /\ \A k \in 1..Len(AlertFeatures(i)) : "properties" \in DOMAIN AlertFeatures(i)[k].items

\* C7: get_alerts on a response of N >= 1 features returns N blocks of 11
\* pieces with the separator between consecutive blocks; block k renders
\* feature k, each of event, areaDesc, severity, description and instruction
\* by its value or, when absent, by its placeholder.
C7_AlertBlocks ==
    \A i \in Inv :
        HasAlerts(i) =>
            LET n == Len(AlertFeatures(i))
                text == ret[i].value
            IN /\ ret[i].kind = "return"
               /\ Len(text) = 12 * n - 1
               /\ \A k \in 1..(n - 1) : text[12 * k] = Separator
               /\ \A k \in 1..n :
                    LET at == 12 * (k - 1)
                        props == AlertFeatures(i)[k].items["properties"]
                    IN /\ text[at + 1] = "\n                Event: "
                       /\ text[at + 2] = Shown(props, "event", "Unknown")
                       /\ text[at + 3] = "\n                Area: "
                       /\ text[at + 4] = Shown(props, "areaDesc", "Unknown")
                       /\ text[at + 5] = "\n                Severity: "
                       /\ text[at + 6] = Shown(props, "severity", "Unknown")
                       /\ text[at + 7] = "\n                Description: "
                       /\ text[at + 8] =
                            Shown(props, "description", "No description available")
                       /\ text[at + 9] = "\n                Instructions: "
                       /\ text[at + 10] =
                            Shown(props, "instruction", "No specific instructions provided")
                       /\ text[at + 11] = "\n            "

C7_Witness ==
    \E i \in Inv :
        /\ HasAlerts(i)
        /\ AlertFeatures(i) = <<Feature(PartialProps), Feature(FullProps)>>
        /\ ret[i].kind = "return"
        /\ ret[i].value[6] = "Unknown"
        /\ ret[i].value[12] = Separator
        /\ ret[i].value[18] = "Severe"

\* The periods of a finished get_forecast whose two fetches succeeded, when
\* each of the periods it renders has all its fields.
ForecastData(i) == log[i].returns[2].value
ForecastPeriods(i) == ForecastData(i).items["properties"].items["periods"].elems
Rendered(i) == Min(Len(ForecastPeriods(i)), 5)
HasPeriods(i) ==
    /\ call[i].tool = "get_forecast"
    /\ pc[i] = "done"
    /\ Len(log[i].returns) = 2
    /\ ForecastData(i).type = "dict"
    /\ "properties" \in DOMAIN ForecastData(i).items
    /\ "periods" \in DOMAIN ForecastData(i).items["properties"].items
    /\ \A k \in 1..Rendered(i) : DOMAIN ForecastPeriods(i)[k].items = PeriodFields

\* C8: get_forecast on a response of n periods returns min(n, 5) blocks of 13
\* pieces with the separator between consecutive blocks; block k renders
\* period k, so that the periods after the fifth are dropped and the order
\* is the upstream's.
C8_ForecastBlocks ==
    \A i \in Inv :
        HasPeriods(i) =>
            LET m == Rendered(i)
                text == ret[i].value
            IN /\ ret[i].kind = "return"
               /\ Len(text) = IF m = 0 THEN 0 ELSE 14 * m - 1
               /\ \A k \in 1..(m - 1) : text[14 * k] = Separator
               /\ \A k \in 1..m :
                    LET at == 14 * (k - 1)
                        period == ForecastPeriods(i)[k].items
                    IN /\ text[at + 1] = "\n"
                       /\ text[at + 2] = period["name"].s
                       /\ text[at + 3] = ":\nTemperature: "
                       /\ text[at + 4] = ToString(period["temperature"].n)
                       /\ text[at + 5] = "°"
                       /\ text[at + 6] = period["temperatureUnit"].s
                       /\ text[at + 7] = "\nWind: "
                       /\ text[at + 8] = period["windSpeed"].s
                       /\ text[at + 9] = " "
                       /\ text[at + 10] = period["windDirection"].s
                       /\ text[at + 11] = "\nForecast: "
                       /\ text[at + 12] = period["detailedForecast"].s
                       /\ text[at + 13] = "\n"

\* Six periods, the sixth of them incomplete: five blocks.
C8_Witness ==
    \E i \in Inv :
        /\ HasPeriods(i)
        /\ Len(ForecastPeriods(i)) = 6
        /\ DOMAIN ForecastPeriods(i)[6].items # PeriodFields
        /\ ret[i].kind = "return"
        /\ Len(ret[i].value) = 69
        /\ ret[i].value[58] = "Period 5"

\* What an invocation returns when it runs with no other: the handler applied
\* to its arguments and to the outcomes of its own GETs.
RunAlone(c, outcomes) ==
    IF c.tool = "get_alerts"
    THEN get_alerts_body(make_nws_request(outcomes[1]))
    ELSE LET next == get_forecast_points(make_nws_request(outcomes[1]))
         IN IF next.kind = "call"
            THEN get_forecast_detail(make_nws_request(outcomes[2]))
            ELSE next

\* The URLs an invocation requests when it runs with no other.
SendsAlone(c, outcomes) ==
    IF c.tool = "get_alerts"
    THEN <<alerts_url(c.state)>>
    ELSE LET next == get_forecast_points(make_nws_request(outcomes[1]))
         IN IF next.kind = "call"
            THEN <<points_url(c.latitude, c.longitude), next.url>>
            ELSE <<points_url(c.latitude, c.longitude)>>

\* C9: under every interleaving of the invocations at their awaits, a
\* finished invocation has requested the URLs and returned the result it
\* would have when run alone with its arguments and the outcomes of its
\* own GETs, and nothing of its frame is left; a running one reads the
\* request it wrote itself.
C9_Isolation ==
    \A i \in Inv :
        /\ pc[i] = "done" =>
              /\ ret[i] = RunAlone(call[i], log[i].outcomes)
              /\ log[i].sent = SendsAlone(call[i], log[i].outcomes)
              /\ frame[Frame(i)] = NoFrame
        /\ stage[i] # "none" =>
              /\ frame[Frame(i)].url = Last(log[i].calls)
              /\ frame[Frame(i)].client = Last(log[i].clients)

\* Invocation 2 ran between the two fetches of invocation 1, and each has
\* returned its own result.
C9_Witness ==
    \E i, j \in Inv :
        /\ i # j
        /\ pc[i] = "done" /\ pc[j] = "done"
        /\ call[i].tool = "get_forecast" /\ call[j].tool = "get_alerts"
        /\ log[i].clients = <<1, 3>>
        /\ log[j].clients = <<2>>
        /\ Len(ret[i].value) = 13
        /\ Len(ret[j].value) = 11

\* The clients of the fetches of invocation i that have returned.
ReturnedClients(i) == {log[i].clients[k] : k \in Fetches(i)}
AllClients == UNION {{<<i, k>> : k \in 1..Len(log[i].clients)} : i \in Inv}

\* C10: every call of make_nws_request opens one client of its own, which
\* is closed once the call has returned, whatever the GET came to: the open
\* clients are those of the calls that have not returned, and no client
\* serves two calls.
C10_ClientScoped ==
    /\ \A i \in Inv :
          /\ Len(log[i].clients) = Len(log[i].calls)
          /\ ReturnedClients(i) \cap open = {}
          /\ stage[i] # "none" => Last(log[i].clients) \in open
    /\ Cardinality(open) = Cardinality({i \in Inv : stage[i] # "none"})
    /\ \A p, q \in AllClients :
          log[p[1]].clients[p[2]] = log[q[1]].clients[q[2]] => p = q

\* An invocation has returned from a fetch that succeeded and from one that
\* failed, while another is in the middle of its fetch.
C10_Witness ==
    \E i, j \in Inv :
        /\ i # j
        /\ Len(log[i].returns) = 2
        /\ ~Failed(log[i].outcomes[1]) /\ Failed(log[i].outcomes[2])
        /\ stage[j] = "get"
        /\ open = {Last(log[j].clients)}

====
